---- MODULE Spec2Model ----
(***************************************************************************)
(* A model of ponderosa's enrichment core (src/src/ponderosa/enrichment):  *)
(*   - Enricher.enrich_transcript / _call_llm / _enrich_single /           *)
(*     _merge_results: the orchestrator and its retry loop, with the       *)
(*     model client as the environment (SpecEnrich), and the same code on  *)
(*     transcripts short enough for one chunk, with the transcript file    *)
(*     and the responses spelled out (SpecSingle);                         *)
(*   - _chunk_text: the chunker, one loop iteration per step, with         *)
(*     Python's str.rfind and slicing semantics (SpecChunk);               *)
(*   - _strip_code_fences, character by character (SpecFence);             *)
(* and of the audio downloader (src/src/ponderosa/ingestion):              *)
(*   - AudioDownloader.download_feed and download_episode under its        *)
(*     tenacity retry decorator, with the HTTP server and the bucket as    *)
(*     the environment (SpecDownload);                                     *)
(* of the store (src/src/ponderosa/storage):                               *)
(*   - PonderosaStore.store_enrichment and get_episode over the four       *)
(*     collections (SpecStore);                                            *)
(* and of the enrich command (src/src/ponderosa/cli.py):                   *)
(*   - cmd_enrich around Enricher.enrich_transcript and the store          *)
(*     (SpecCli).                                                          *)
(***************************************************************************)
EXTENDS Integers, Sequences, FiniteSets, TLC

(* ------------------------------ bounds -------------------------------- *)

\* Largest number of chunks a transcript is split into.
MaxChunks == 3

\* Longest text handed to _chunk_text.
MaxLen == 4

\* Largest chunk_size handed to _chunk_text.
MaxChunkSize == 3

\* Largest number of segments of a transcript file.
MaxSegs == 2

\* Longest arbitrary string handed to _strip_code_fences.
MaxFenceLen == 4

\* Longest inner content of a fenced string handed to _strip_code_fences.
MaxInner == 2

\* Largest number of episodes of a feed.
MaxEpisodes == 2

\* Largest number of insights of one category in a stored result.
MaxInsights == 2

\* Largest number of store_enrichment calls in a run.
MaxStores == 2

(* -------------------------- program constants ------------------------- *)

MAX_RETRIES == 2

CHUNK_SIZE == 60000

\* stop=stop_after_attempt(3)
STOP_AFTER_ATTEMPT == 3

\* The lookback of the sentence-boundary search, text.rfind(..., start + chunk_size - 5000, end)
LOOKBACK == 5000

VARIABLES
    \* Enricher.enrich_transcript and Enricher._call_llm
    stub,           \* the responses the model client may give
    data,           \* data = json.loads(transcript_path.read_text())
    loaded,         \* text, as handed to _chunk_text
    e_chunks,       \* chunks = _chunk_text(text)
    pc,             \* "load" | "call" | "returned" | "raised"
    mode,           \* "single" | "chunk" | "merge": which call is in flight
    i,              \* enumerate(chunks, 1) index of the chunk being extracted
    attempt,        \* loop variable of _call_llm
    last_error,     \* last_error of _call_llm
    chunk_results,  \* chunk_results of enrich_transcript
    calls,          \* every client.chat.completions.create call, in order
    result,         \* value returned by enrich_transcript
    error,          \* exception raised out of enrich_transcript
    \* _chunk_text
    text,           \* the text, a sequence of characters
    chunk_size,
    overlap,
    start,          \* loop variable of _chunk_text
    chunks,         \* chunks appended so far, each with its window [s, e)
    cpc,            \* "idle" | "entry" | "loop" | "done"
    \* _strip_code_fences
    fence_in,       \* the argument, a sequence of characters
    fence_out,      \* the value returned
    fpc,            \* "idle" | "entry" | "done"
    \* AudioDownloader.download_feed and download_episode
    d_cfg,          \* upload_to_gcs, skip_existing, and whether gcs_client is set
    d_feed,         \* feed.episodes, each episode given by its id
    d_idx,          \* position of the for loop of download_feed
    d_pc,           \* "idle" | "feed" | "episode" | "done" | "raised"
    d_attempt,      \* attempt number of the retry decorator
    d_log,          \* every HTTP request made, in order
    d_results,      \* results of download_feed
    d_raised,       \* what download_episode raised, per call
    d_error,        \* exception raised out of download_feed
    \* PonderosaStore
    s_episodes,     \* the "episodes" collection
    s_items,        \* the "themes", "learnings" and "strategies" collections
    s_calls,        \* every store_enrichment call, in order
    s_got,          \* the last get_episode call and the value it returned
    \* cmd_enrich
    c_pc,           \* "idle" | "start" | "enriching" | "done"
    c_args,         \* what the command has read of its arguments
    c_ret           \* the return code, or the exception raised

enrich_vars == <<stub, data, loaded, e_chunks, pc, mode, i, attempt, last_error, chunk_results,
                 calls, result, error>>

chunk_vars == <<text, chunk_size, overlap, start, chunks, cpc>>

fence_vars == <<fence_in, fence_out, fpc>>

dl_vars == <<d_cfg, d_feed, d_idx, d_pc, d_attempt, d_log, d_results, d_raised,
             d_error>>

store_vars == <<s_episodes, s_items, s_calls, s_got>>

cli_vars == <<c_pc, c_args, c_ret>>

vars == <<enrich_vars, chunk_vars, fence_vars, dl_vars, store_vars, cli_vars>>

None == [type |-> "None"]

\* The other parts of the model, at rest
IdleFence ==
    /\ fence_in = <<>>
    /\ fence_out = <<>>
    /\ fpc = "idle"

IdleDownload ==
    /\ d_cfg = None
    /\ d_feed = <<>>
    /\ d_idx = 1
    /\ d_pc = "idle"
    /\ d_attempt = 1
    /\ d_log = <<>>
    /\ d_results = {}
    /\ d_raised = <<>>
    /\ d_error = None

IdleStore ==
    /\ s_episodes = {}
    /\ s_items = {}
    /\ s_calls = <<>>
    /\ s_got = None

IdleCli ==
    /\ c_pc = "idle"
    /\ c_args = None
    /\ c_ret = None

(* ---------------------------- pure helpers ---------------------------- *)

\* A short-circuit that misses the text of exactly chunk_size characters
ShortText_strict(t, cs) == Len(t) < cs

\* _chunk_text: len(text) <= chunk_size
ShortText(t, cs) == Len(t) <= cs

\* A loop one attempt short: range(1, MAX_RETRIES + 1)
AttemptRange_short == 1 .. MAX_RETRIES

\* A loop one attempt over: range(1, MAX_RETRIES + 3)
AttemptRange_long == 1 .. (MAX_RETRIES + 2)

\* range(1, MAX_RETRIES + 2)
AttemptRange == 1 .. (MAX_RETRIES + 1)

\* _enrich_single: system instruction and ENRICHMENT_PROMPT + text
EnrichRequest(chunk) ==
    [system |-> "podcast analyst",
     prompt |-> [template |-> "ENRICHMENT_PROMPT", body |-> <<chunk>>]]

\* r.model_dump(): the fields of the result as a plain dict
ModelDump(r) ==
    [about |-> r.about, id |-> r.id, given |-> r.given, scores |-> r.scores]

\* _merge_results: system instruction and MERGE_PROMPT + json.dumps([...])
MergeRequest(results) ==
    [system |-> "synthesizing",
     prompt |-> [template |-> "MERGE_PROMPT",
                 body |-> [k \in 1 .. Len(results) |-> ModelDump(results[k])]]]

\* A chunk request that carries what the chunks before it returned
CurrentRequest_context(m, k, chs, results) ==
    IF m = "merge" THEN MergeRequest(results)
    ELSE [system |-> "podcast analyst",
          prompt |-> [template |-> "ENRICHMENT_PROMPT",
                      body |-> <<chs[k]>> \o [j \in 1 .. Len(results) |-> results[j].id]]]

\* The request of the call in flight
CurrentRequest(m, k, chs, results) ==
    IF m = "merge" THEN MergeRequest(results) ELSE EnrichRequest(chs[k])

\* A contextual retry: the error of the attempt before is sent along
AttemptRequest_feedback(req, err) ==
    IF err = None THEN req
    ELSE [system |-> req.system,
          prompt |-> [template |-> req.prompt.template, body |-> req.prompt.body,
                      feedback |-> err.type]]

\* messages=[{"role": "system", "content": system}, {"role": "user",
\* "content": prompt}]: every attempt sends the request _call_llm was given
AttemptRequest(req, err) == req

\* The top-level fields of EnrichmentResult
Keys == {"episode_title", "summary", "themes", "learnings", "strategies"}

\* A response of the model client: whether it is JSON at all (json), whether
\* the values it gives have the types of the schema (typed), the top-level
\* keys it gives (keys) and the relevance_score values of its insights, in
\* tenths (scores).
Shape(kind, json, typed, keys, scores) ==
    [kind |-> kind, json |-> json, typed |-> typed, keys |-> keys, scores |-> scores]

\* The responses of SpecEnrich: not JSON; JSON with scores outside
\* [0.0, 1.0]; JSON of the full schema with scores 0.0, 0.5 and 1.0.
BasicShapes ==
    { Shape("notjson", FALSE, FALSE, {}, {}),
      Shape("badschema", TRUE, TRUE, Keys, {-1, 5, 11}),
      Shape("valid", TRUE, TRUE, Keys, {0, 5, 10}) }

\* More responses: a value of the wrong type; objects that leave keys out
\* (one key, or all of them: {}); one score just outside either end.
RichShapes ==
    BasicShapes
    \cup { Shape("wrongtype", TRUE, FALSE, Keys, {5}) }
    \cup { Shape("partial", TRUE, TRUE, Keys \ {k}, {5}) : k \in Keys }
    \cup { Shape("partial", TRUE, TRUE, {}, {}) }
    \cup { Shape("badscore", TRUE, TRUE, Keys, {sc}) : sc \in {-1, 11} }

\* response.choices[0].message.content of call number id, made with req
Response(sh, req, id) ==
    [kind |-> sh.kind, json |-> sh.json, typed |-> sh.typed, keys |-> sh.keys,
     scores |-> sh.scores, about |-> req.prompt, id |-> id]

\* json.loads(raw): a decoded object, or JSONDecodeError
JsonLoads(raw) ==
    IF ~raw.json
    THEN [ok |-> FALSE, err |-> [type |-> "JSONDecodeError", id |-> raw.id]]
    ELSE [ok |-> TRUE, obj |-> raw]

\* relevance_score: float = Field(default=0.5, ge=0.0, le=1.0), in tenths
ScoreOk(sc) == 0 <= sc /\ sc <= 10

\* A constructor that drops the parsed fields: EnrichmentResult()
EnrichmentResult_blank(obj) ==
    IF obj.typed /\ \A sc \in obj.scores : ScoreOk(sc)
    THEN [ok |-> TRUE, value |-> [about |-> <<>>, id |-> 0, given |-> {}, scores |-> {}]]
    ELSE [ok |-> FALSE, err |-> [type |-> "ValidationError", id |-> obj.id]]

\* A schema that clamps a score into [0.0, 1.0] instead of rejecting it
EnrichmentResult_clamp(obj) ==
    IF obj.typed
    THEN [ok |-> TRUE,
          value |-> [about |-> obj.about, id |-> obj.id, given |-> obj.keys,
                     scores |-> {IF sc < 0 THEN 0 ELSE IF sc > 10 THEN 10 ELSE sc :
                                    sc \in obj.scores}]]
    ELSE [ok |-> FALSE, err |-> [type |-> "ValidationError", id |-> obj.id]]

\* EnrichmentResult(**parsed): a validated result, or ValidationError. Every
\* field has a default, so a key left out is not an error: given records
\* the keys taken from the response, the others hold "" or [].
EnrichmentResult(obj) ==
    IF obj.typed /\ \A sc \in obj.scores : ScoreOk(sc)
    THEN [ok |-> TRUE,
          value |-> [about |-> obj.about, id |-> obj.id,
                     given |-> obj.keys, scores |-> obj.scores]]
    ELSE [ok |-> FALSE, err |-> [type |-> "ValidationError", id |-> obj.id]]

\* The try block of _call_llm: json.loads, then EnrichmentResult(**parsed)
ParseResponse(raw) ==
    LET j == JsonLoads(raw)
    IN  IF j.ok THEN EnrichmentResult(j.obj) ELSE j

\* An except branch that keeps the first error: last_error = last_error or e
KeepError_first(prev, e) == IF prev = None THEN e ELSE prev

\* last_error = e
KeepError(prev, e) == e

\* Collecting at the front: chunk_results.insert(0, result)
Collect_front(results, r) == <<r>> \o results

\* chunk_results.append(result)
Collect(results, r) == Append(results, r)

\* An orchestrator that skips a chunk whose extraction failed
OrchestratorStep_skip(m, k, n, ok) ==
    IF ~ok /\ m = "chunk" /\ k < n THEN [pc |-> "call", mode |-> "chunk", i |-> k + 1]
    ELSE IF ~ok /\ m = "chunk" THEN [pc |-> "call", mode |-> "merge", i |-> k]
    ELSE IF ~ok THEN [pc |-> "raised", mode |-> m, i |-> k]
    ELSE IF m = "chunk" /\ k < n THEN [pc |-> "call", mode |-> "chunk", i |-> k + 1]
    ELSE IF m = "chunk" THEN [pc |-> "call", mode |-> "merge", i |-> k]
    ELSE [pc |-> "returned", mode |-> m, i |-> k]

\* An orchestrator that returns after the last chunk without merging
OrchestratorStep_nomerge(m, k, n, ok) ==
    IF ~ok THEN [pc |-> "raised", mode |-> m, i |-> k]
    ELSE IF m = "chunk" /\ k < n THEN [pc |-> "call", mode |-> "chunk", i |-> k + 1]
    ELSE [pc |-> "returned", mode |-> m, i |-> k]

\* Control of enrich_transcript once the call in flight has returned (ok)
\* or raised (~ok): next chunk, the merge, or the end of the run.
OrchestratorStep(m, k, n, ok) ==
    IF ~ok THEN [pc |-> "raised", mode |-> m, i |-> k]
    ELSE IF m = "chunk" /\ k < n THEN [pc |-> "call", mode |-> "chunk", i |-> k + 1]
    ELSE IF m = "chunk" THEN [pc |-> "call", mode |-> "merge", i |-> k]
    ELSE [pc |-> "returned", mode |-> m, i |-> k]

\* An orchestrator without the single-chunk shortcut
FirstMode_always_chunk(n) == "chunk"

\* if len(chunks) == 1: single-shot, else the chunk loop
FirstMode(n) == IF n = 1 THEN "single" ELSE "chunk"

(* ------------------------------ Enricher ------------------------------ *)

\* data.get("text", ""), s.get("text", ""): the value, or "" for a missing key
GetText(d) == IF d.has_text THEN d.text ELSE <<>>

\* data.get("segments", [])
GetSegments(d) == IF d.has_segments THEN d.segments ELSE <<>>

RECURSIVE Join_nosep(_, _)
\* A join that forgets the separator: "".join(xs)
Join_nosep(sep, xs) ==
    IF xs = <<>> THEN <<>> ELSE xs[1] \o Join_nosep(sep, Tail(xs))

RECURSIVE Join(_, _)
\* sep.join(xs)
Join(sep, xs) ==
    IF xs = <<>> THEN <<>>
    ELSE IF Len(xs) = 1 THEN xs[1]
    ELSE xs[1] \o sep \o Join(sep, Tail(xs))

\* text = data.get("text", ""); if not text: text = " ".join(s.get("text", "")
\* for s in data.get("segments", []))
LoadText(d) ==
    IF GetText(d) # <<>> THEN GetText(d)
    ELSE LET segments == GetSegments(d)
         IN  Join(<<" ">>, [k \in 1 .. Len(segments) |-> GetText(segments[k])])

InitEnrich ==
    /\ stub = BasicShapes
    /\ data = None
    /\ loaded = <<>>
    /\ e_chunks = <<>>
    /\ pc = "load"
    /\ mode = "single"
    /\ i = 1
    /\ attempt = 1
    /\ last_error = None
    /\ chunk_results = <<>>
    /\ calls = <<>>
    /\ result = None
    /\ error = None
    /\ text = <<>>
    /\ chunk_size = 1
    /\ overlap = 0
    /\ start = 0
    /\ chunks = <<>>
    /\ cpc = "idle"
    /\ IdleFence
    /\ IdleDownload
    /\ IdleStore
    /\ IdleCli

\* enrich_transcript up to the first model call: load the text, chunk it,
\* pick the single-shot or the chunked path. The transcript is any one whose
\* text splits into n chunks, chunk k identified by k; the text itself is
\* left out.
Load ==
    /\ pc = "load"
    /\ \E n \in 1 .. MaxChunks :
        /\ e_chunks' = [k \in 1 .. n |-> k]
        /\ mode' = FirstMode(n)
    /\ pc' = "call"
    /\ i' = 1
    /\ attempt' = 1
    /\ last_error' = None
    /\ chunk_results' = <<>>
    /\ UNCHANGED <<stub, data, loaded, calls, result, error>>
    /\ UNCHANGED <<chunk_vars, fence_vars, dl_vars, store_vars, cli_vars>>

\* The record of one client.chat.completions.create call
CallEntry(req, raw) ==
    [system |-> req.system, prompt |-> req.prompt, attempt |-> attempt, raw |-> raw]

\* One attempt of _call_llm whose response parses and validates: the call
\* returns, and enrich_transcript goes on to the next chunk, the merge or
\* its own return.
AttemptSucceeds ==
    /\ pc = "call"
    /\ \E sh \in stub :
        LET req  == AttemptRequest(CurrentRequest(mode, i, e_chunks, chunk_results),
                                  last_error)
            raw  == Response(sh, req, Len(calls) + 1)
            p    == ParseResponse(raw)
            step == OrchestratorStep(mode, i, Len(e_chunks), TRUE)
        IN  /\ p.ok
            /\ calls' = Append(calls, CallEntry(req, raw))
            /\ chunk_results' = IF mode = "chunk" THEN Collect(chunk_results, p.value)
                                ELSE chunk_results
            /\ result' = IF step.pc = "returned" THEN p.value ELSE result
            /\ pc' = step.pc
            /\ mode' = step.mode
            /\ i' = step.i
            /\ attempt' = 1
            /\ last_error' = None
    /\ UNCHANGED <<stub, data, loaded, e_chunks, error>>
    /\ UNCHANGED <<chunk_vars, fence_vars, dl_vars, store_vars, cli_vars>>

\* One attempt of _call_llm whose response is not JSON or fails validation:
\* the except branch; the loop goes on, or is exhausted and RuntimeError is
\* raised through enrich_transcript.
AttemptFails ==
    /\ pc = "call"
    /\ \E sh \in stub :
        LET req == AttemptRequest(CurrentRequest(mode, i, e_chunks, chunk_results),
                                  last_error)
            raw == Response(sh, req, Len(calls) + 1)
            p   == ParseResponse(raw)
        IN  /\ ~p.ok
            /\ calls' = Append(calls, CallEntry(req, raw))
            /\ last_error' = KeepError(last_error, p.err)
            /\ IF attempt + 1 \in AttemptRange
               THEN /\ attempt' = attempt + 1
                    /\ UNCHANGED <<pc, mode, i, error, chunk_results>>
               ELSE LET step == OrchestratorStep(mode, i, Len(e_chunks), FALSE)
                    IN  /\ pc' = step.pc
                        /\ mode' = step.mode
                        /\ i' = step.i
                        /\ attempt' = IF step.pc = "raised" THEN attempt ELSE 1
                        /\ chunk_results' = chunk_results
                        /\ error' = [type |-> "RuntimeError", last |-> last_error']
    /\ UNCHANGED <<stub, data, loaded, e_chunks, result>>
    /\ UNCHANGED <<chunk_vars, fence_vars, dl_vars, store_vars, cli_vars>>

\* client.chat.completions.create raises (transport failure, timeout): the
\* call sits outside the try block, so the exception leaves _call_llm and
\* enrich_transcript at once.
ClientRaises ==
    /\ pc = "call"
    /\ LET req == AttemptRequest(CurrentRequest(mode, i, e_chunks, chunk_results),
                                  last_error)
           raw == Response(Shape("raise", FALSE, FALSE, {}, {}), req, Len(calls) + 1)
       IN  calls' = Append(calls, CallEntry(req, raw))
    /\ pc' = "raised"
    /\ error' = [type |-> "APIError", last |-> None]
    /\ UNCHANGED <<stub, data, loaded, e_chunks, mode, i, attempt, last_error,
                   chunk_results, result>>
    /\ UNCHANGED <<chunk_vars, fence_vars, dl_vars, store_vars, cli_vars>>

NextEnrich ==
    \/ Load
    \/ AttemptSucceeds
    \/ AttemptFails
    \/ ClientRaises

SpecEnrich == InitEnrich /\ [][NextEnrich]_vars

\* The run goes on while it can: a call of the client returns or raises
SpecEnrichLive == SpecEnrich /\ WF_vars(NextEnrich)

(* ------------------- Enricher, one-chunk transcripts ------------------ *)

\* The text of a segment, or of the transcript's top-level "text"
SegTexts == {<<>>, <<"a">>, <<"b">>}

\* A segment of the transcript file: {"text": ...} or an object without it
Segments ==
    {[has_text |-> TRUE, text |-> t] : t \in SegTexts}
    \cup {[has_text |-> FALSE, text |-> <<>>]}

\* The transcript files: "text" missing, empty or not, "segments" missing
\* or a list of up to MaxSegs segments.
Transcripts ==
    {[has_text |-> ht, text |-> t, has_segments |-> hs, segments |-> sg] :
        ht \in BOOLEAN, t \in SegTexts, hs \in BOOLEAN,
        sg \in UNION {[1 .. n -> Segments] : n \in 0 .. MaxSegs}}

PlainTranscript ==
    [has_text |-> TRUE, text |-> <<"a">>, has_segments |-> FALSE, segments |-> <<>>]

\* Every transcript file with the responses of SpecEnrich, and one plain
\* transcript with the richer responses.
InitSingle ==
    /\ \/ /\ data \in {d \in Transcripts : (~d.has_text => d.text = <<>>)
                                          /\ (~d.has_segments => d.segments = <<>>)}
          /\ stub = BasicShapes
       \/ /\ data = PlainTranscript
          /\ stub = RichShapes
    /\ loaded = <<>>
    /\ e_chunks = <<>>
    /\ pc = "load"
    /\ mode = "single"
    /\ i = 1
    /\ attempt = 1
    /\ last_error = None
    /\ chunk_results = <<>>
    /\ calls = <<>>
    /\ result = None
    /\ error = None
    /\ text = <<>>
    /\ chunk_size = 1
    /\ overlap = 0
    /\ start = 0
    /\ chunks = <<>>
    /\ cpc = "idle"
    /\ IdleFence
    /\ IdleDownload
    /\ IdleStore
    /\ IdleCli

\* enrich_transcript up to the first model call, for a transcript whose
\* text is no longer than CHUNK_SIZE: _chunk_text returns [text], the
\* single-shot path is taken. Nothing checks that the text is not empty.
LoadTranscript ==
    /\ pc = "load"
    /\ ShortText(LoadText(data), CHUNK_SIZE)
    /\ loaded' = LoadText(data)
    /\ e_chunks' = <<loaded'>>
    /\ mode' = FirstMode(Len(e_chunks'))
    /\ pc' = "call"
    /\ i' = 1
    /\ attempt' = 1
    /\ last_error' = None
    /\ chunk_results' = <<>>
    /\ UNCHANGED <<stub, data, calls, result, error>>
    /\ UNCHANGED <<chunk_vars, fence_vars, dl_vars, store_vars, cli_vars>>

NextSingle ==
    \/ LoadTranscript
    \/ AttemptSucceeds
    \/ AttemptFails
    \/ ClientRaises

SpecSingle == InitSingle /\ [][NextSingle]_vars

(* ----------------------------- _chunk_text ---------------------------- *)

\* The characters texts are made of: the three sentence marks, the space
\* and one other character.
Alphabet == {".", "?", "!", " ", "a"}

Texts == UNION {[1 .. n -> Alphabet] : n \in 0 .. MaxLen}

\* Texts longer than the lookback: a short head, then LOOKBACK characters
\* holding no sentence mark, then nothing or the end of a sentence.
LongTexts ==
    {head \o [k \in 1 .. LOOKBACK |-> "a"] \o tail :
        head \in UNION {[1 .. n -> Alphabet] : n \in 0 .. 2},
        tail \in {<<>>, <<".", " ">>}}

\* The loop of a non-terminating call is cut after this many chunks; a call
\* that terminates appends fewer.
MaxIter == MaxLen + 3

Max(S) == CHOOSE x \in S : \A y \in S : y <= x

\* Python's adjustment of a slice index x for a sequence of length n
\* (negative indices count from the end, everything is clipped to [0, n]).
Adj(x, n) ==
    IF x < 0 THEN (IF x + n < 0 THEN 0 ELSE x + n)
    ELSE (IF x > n THEN n ELSE x)

\* t[s:e], offsets counted from 0
PySlice(t, s, e) ==
    LET a == Adj(s, Len(t))
        b == Adj(e, Len(t))
    IN  IF a < b THEN SubSeq(t, a + 1, b) ELSE <<>>

\* t.rfind(sub, s, e): the highest offset p with t[p:p+len(sub)] == sub
\* lying wholly inside t[s:e], or -1
RFind(t, sub, s, e) ==
    LET a == Adj(s, Len(t))
        b == Adj(e, Len(t))
        hits == {p \in a .. (b - Len(sub)) : SubSeq(t, p + 1, p + Len(sub)) = sub}
    IN  IF hits = {} THEN -1 ELSE Max(hits)

\* The sentence boundary of the window [st, end): ". ", else "? ", else "! "
Boundary(t, st, cs, end) ==
    LET lo == st + cs - LOOKBACK
        b1 == RFind(t, <<".", " ">>, lo, end)
        b2 == IF b1 = -1 THEN RFind(t, <<"?", " ">>, lo, end) ELSE b1
        b3 == IF b2 = -1 THEN RFind(t, <<"!", " ">>, lo, end) ELSE b2
    IN  b3

\* A cut that leaves the sentence mark out: end = boundary
WindowEnd_before(t, st, cs) ==
    LET end == st + cs
    IN  IF end < Len(t)
        THEN LET boundary == Boundary(t, st, cs, end)
             IN  IF boundary # -1 THEN boundary ELSE end
        ELSE end

\* A window one character too wide: end = start + chunk_size + 1
WindowEnd_wide(t, st, cs) ==
    LET end == st + cs + 1
    IN  IF end < Len(t)
        THEN LET boundary == Boundary(t, st, cs, end)
             IN  IF boundary # -1 THEN boundary + 1 ELSE end
        ELSE end

\* end, as it stands when the chunk is appended
WindowEnd(t, st, cs) ==
    LET end == st + cs
    IN  IF end < Len(t)
        THEN LET boundary == Boundary(t, st, cs, end)
             IN  IF boundary # -1 THEN boundary + 1 ELSE end
        ELSE end

\* An overlap one character too wide: start = end - overlap - 1
NextStart_early(end, ov) == IF ov > 0 THEN end - ov - 1 ELSE end

\* start = end - overlap
NextStart(end, ov) == end - ov

InitChunk ==
    /\ \/ /\ text \in Texts
          /\ chunk_size \in 1 .. MaxChunkSize
          /\ overlap \in 0 .. (chunk_size - 1)
       \/ /\ text \in LongTexts
          /\ chunk_size \in LOOKBACK .. (LOOKBACK + 2)
          /\ overlap \in 0 .. (MaxChunkSize - 1)
    /\ start = 0
    /\ chunks = <<>>
    /\ cpc = "entry"
    /\ stub = {}
    /\ data = None
    /\ loaded = <<>>
    /\ e_chunks = <<>>
    /\ pc = "idle"
    /\ mode = "single"
    /\ i = 1
    /\ attempt = 1
    /\ last_error = None
    /\ chunk_results = <<>>
    /\ calls = <<>>
    /\ result = None
    /\ error = None
    /\ IdleFence
    /\ IdleDownload
    /\ IdleStore
    /\ IdleCli

\* if len(text) <= chunk_size: return [text]
ShortCircuit ==
    /\ cpc = "entry"
    /\ ShortText(text, chunk_size)
    /\ chunks' = <<[s |-> 0, e |-> Len(text), str |-> text]>>
    /\ cpc' = "done"
    /\ UNCHANGED <<text, chunk_size, overlap, start>>
    /\ UNCHANGED <<enrich_vars, fence_vars, dl_vars, store_vars, cli_vars>>

\* chunks = []; start = 0
EnterLoop ==
    /\ cpc = "entry"
    /\ ~ShortText(text, chunk_size)
    /\ chunks' = <<>>
    /\ start' = 0
    /\ cpc' = "loop"
    /\ UNCHANGED <<text, chunk_size, overlap>>
    /\ UNCHANGED <<enrich_vars, fence_vars, dl_vars, store_vars, cli_vars>>

\* One iteration of while start < len(text)
LoopStep ==
    /\ cpc = "loop"
    /\ start < Len(text)
    /\ Len(chunks) < MaxIter
    /\ LET end == WindowEnd(text, start, chunk_size)
       IN  /\ chunks' = Append(chunks,
                   [s |-> start, e |-> end, str |-> PySlice(text, start, end)])
           /\ start' = NextStart(end, overlap)
    /\ UNCHANGED <<text, chunk_size, overlap, cpc>>
    /\ UNCHANGED <<enrich_vars, fence_vars, dl_vars, store_vars, cli_vars>>

\* The loop condition fails: return chunks
LoopExit ==
    /\ cpc = "loop"
    /\ ~(start < Len(text))
    /\ cpc' = "done"
    /\ UNCHANGED <<text, chunk_size, overlap, start, chunks>>
    /\ UNCHANGED <<enrich_vars, fence_vars, dl_vars, store_vars, cli_vars>>

NextChunk ==
    \/ ShortCircuit
    \/ EnterLoop
    \/ LoopStep
    \/ LoopExit

SpecChunk == InitChunk /\ [][NextChunk]_vars

(* -------------------------- _strip_code_fences ------------------------ *)

IdleEnrich ==
    /\ stub = {}
    /\ data = None
    /\ loaded = <<>>
    /\ e_chunks = <<>>
    /\ pc = "idle"
    /\ mode = "single"
    /\ i = 1
    /\ attempt = 1
    /\ last_error = None
    /\ chunk_results = <<>>
    /\ calls = <<>>
    /\ result = None
    /\ error = None

IdleChunk ==
    /\ text = <<>>
    /\ chunk_size = 1
    /\ overlap = 0
    /\ start = 0
    /\ chunks = <<>>
    /\ cpc = "idle"

\* The characters responses are made of: the backquote (written "tick"),
\* the newline, the space and one other character.
FenceAlphabet == {"tick", "\n", " ", "x"}

\* "```"
Fence == <<"tick", "tick", "tick">>

\* The characters str.strip() removes, among those of FenceAlphabet
Whitespace == {" ", "\n"}

\* Every string of up to MaxFenceLen characters, and the fenced strings: an
\* opening fence with or without a language tag, a newline, up to MaxInner
\* characters, and no closing fence, a closing fence, or a closing fence
\* on a line of its own.
FenceInputs ==
    UNION {[1 .. n -> FenceAlphabet] : n \in 0 .. MaxFenceLen}
    \cup {Fence \o tag \o <<"\n">> \o inner \o closing :
            tag \in {<<>>, <<"x">>},
            inner \in UNION {[1 .. n -> FenceAlphabet] : n \in 0 .. MaxInner},
            closing \in {<<>>, Fence, <<"\n">> \o Fence}}

\* t.startswith(pre)
StartsWith(t, pre) == Len(t) >= Len(pre) /\ SubSeq(t, 1, Len(pre)) = pre

\* t.endswith(suf)
EndsWith(t, suf) ==
    Len(t) >= Len(suf) /\ SubSeq(t, Len(t) - Len(suf) + 1, Len(t)) = suf

\* t.split("\n", 1)[1]: what follows the first newline of t
AfterFirstNewline(t) ==
    LET p == CHOOSE q \in 1 .. Len(t) :
                 t[q] = "\n" /\ \A r \in 1 .. (q - 1) : t[r] # "\n"
    IN  SubSeq(t, p + 1, Len(t))

\* t.strip()
PyStrip(t) ==
    LET keep == {q \in 1 .. Len(t) : t[q] \notin Whitespace}
    IN  IF keep = {} THEN <<>>
        ELSE SubSeq(t, CHOOSE q \in keep : \A r \in keep : q <= r, Max(keep))

\* A closing fence removed with nothing else: text[:-3]
CloseFence_keep(t) == SubSeq(t, 1, Len(t) - 3)

\* text[:-3].strip()
CloseFence(t) == PyStrip(SubSeq(t, 1, Len(t) - 3))

\* The closing fence looked for whether or not the text opens with one
StripCodeFences_dedent(t) ==
    LET t1 == IF StartsWith(t, Fence)
              THEN (IF \E q \in 1 .. Len(t) : t[q] = "\n"
                    THEN AfterFirstNewline(t)
                    ELSE SubSeq(t, 4, Len(t)))
              ELSE t
    IN  IF EndsWith(t1, Fence) THEN CloseFence(t1) ELSE t1

\* _strip_code_fences(text)
StripCodeFences(t) ==
    IF StartsWith(t, Fence)
    THEN LET t1 == IF \E q \in 1 .. Len(t) : t[q] = "\n"
                   THEN AfterFirstNewline(t)
                   ELSE SubSeq(t, 4, Len(t))
         IN  IF EndsWith(t1, Fence) THEN CloseFence(t1) ELSE t1
    ELSE t

InitFence ==
    /\ fence_in \in FenceInputs
    /\ fence_out = <<>>
    /\ fpc = "entry"
    /\ IdleEnrich
    /\ IdleChunk
    /\ IdleDownload
    /\ IdleStore
    /\ IdleCli

\* One call of _strip_code_fences
Strip ==
    /\ fpc = "entry"
    /\ fence_out' = StripCodeFences(fence_in)
    /\ fpc' = "done"
    /\ UNCHANGED fence_in
    /\ UNCHANGED <<enrich_vars, chunk_vars, dl_vars, store_vars, cli_vars>>

NextFence == Strip

SpecFence == InitFence /\ [][NextFence]_vars

(* --------------------------- AudioDownloader -------------------------- *)

\* The exception classes in play and the class each derives from
\* (TimeoutException and HTTPStatusError are httpx.HTTPError subclasses).
BaseOf ==
    [TimeoutException |-> "HTTPError", HTTPStatusError |-> "HTTPError",
     HTTPError |-> "Exception", DownloadError |-> "Exception",
     OSError |-> "Exception", RetryError |-> "Exception",
     GCSError |-> "Exception", Exception |-> "Exception"]

\* isinstance(exc, cls), exc and cls given by class name
IsInstance(exc, cls) ==
    \/ exc = cls
    \/ BaseOf[exc] = cls
    \/ BaseOf[BaseOf[exc]] = cls

\* retry=retry_if_exception_type((httpx.HTTPError, httpx.TimeoutException))
RetryIf(exc) ==
    \E cls \in {"HTTPError", "TimeoutException"} : IsInstance(exc, cls)

\* What self._download_file does: "ok", or the exception it raises
HttpOutcomes == {"ok", "HTTPError", "TimeoutException", "HTTPStatusError", "OSError"}

\* try: self._download_file(...) except httpx.HTTPError as e: raise
\* DownloadError(...) from e -- what the try statement raises, or "ok"
TryDownload(outcome) ==
    IF outcome = "ok" THEN "ok"
    ELSE IF IsInstance(outcome, "HTTPError") THEN "DownloadError"
    ELSE outcome

\* if upload_to_gcs and self.gcs_client: the upload is made
Uploads(cfg) == cfg.upload_to_gcs /\ cfg.gcs_client

\* if skip_existing and upload_to_gcs and self.gcs_client: exists() is asked
ChecksExisting(cfg) == cfg.skip_existing /\ cfg.upload_to_gcs /\ cfg.gcs_client

\* results[episode.id] = value
SetResult(results, id, value) ==
    {r \in results : r.id # id} \cup {[id |-> id, value |-> value]}

InitDownload ==
    /\ d_cfg \in [upload_to_gcs : BOOLEAN, skip_existing : BOOLEAN, gcs_client : BOOLEAN]
    /\ d_feed \in UNION {[1 .. n -> 1 .. MaxEpisodes] : n \in 0 .. MaxEpisodes}
    /\ d_idx = 1
    /\ d_pc = "feed"
    /\ d_attempt = 1
    /\ d_log = <<>>
    /\ d_results = {}
    /\ d_raised = <<>>
    /\ d_error = None
    /\ IdleEnrich
    /\ IdleChunk
    /\ IdleFence
    /\ IdleStore
    /\ IdleCli

\* download_feed, an episode already in the bucket: its URI is recorded
\* and the loop continues.
SkipExisting ==
    /\ d_pc = "feed"
    /\ d_idx <= Len(d_feed)
    /\ ChecksExisting(d_cfg)
    /\ d_results' = SetResult(d_results, d_feed[d_idx], "existing uri")
    /\ d_idx' = d_idx + 1
    /\ UNCHANGED <<d_cfg, d_feed, d_pc, d_attempt, d_log, d_raised, d_error>>
    /\ UNCHANGED <<enrich_vars, chunk_vars, fence_vars, store_vars, cli_vars>>

\* download_feed, an episode not skipped (the check is off, or exists() is
\* false): download_episode is called, the decorator starts at attempt 1.
CallDownloadEpisode ==
    /\ d_pc = "feed"
    /\ d_idx <= Len(d_feed)
    /\ d_pc' = "episode"
    /\ d_attempt' = 1
    /\ UNCHANGED <<d_cfg, d_feed, d_idx, d_log, d_results, d_raised, d_error>>
    /\ UNCHANGED <<enrich_vars, chunk_vars, fence_vars, store_vars, cli_vars>>

\* A loop without the except clause: every exception leaves it
FeedAfterRaise_abort(exc) == "raised"

\* What download_feed does with an exception out of download_episode:
\* except DownloadError logs and goes on, anything else leaves the loop.
FeedAfterRaise(exc) ==
    IF IsInstance(exc, "DownloadError") THEN "feed" ELSE "raised"

\* One attempt of download_episode under the decorator: the body runs, and
\* returns, or raises; the decorator retries what RetryIf accepts until
\* STOP_AFTER_ATTEMPT attempts are made (then RetryError), and lets every
\* other exception through.
Attempt ==
    /\ d_pc = "episode"
    /\ \E outcome \in HttpOutcomes, upload \in {"ok", "GCSError"} :
        LET ep     == d_feed[d_idx]
            tried  == TryDownload(outcome)
            raised == IF tried # "ok" THEN tried
                      ELSE IF Uploads(d_cfg) THEN upload
                      ELSE "ok"
        IN  /\ (upload = "GCSError") => (tried = "ok" /\ Uploads(d_cfg))
            /\ d_log' = Append(d_log,
                    [ep |-> ep, pos |-> d_idx, attempt |-> d_attempt,
                     outcome |-> outcome])
            /\ IF raised = "ok"
               THEN /\ d_results' = SetResult(d_results, ep,
                            IF Uploads(d_cfg) THEN "uploaded uri" ELSE "local path")
                    /\ d_pc' = "feed"
                    /\ d_idx' = d_idx + 1
                    /\ UNCHANGED <<d_attempt, d_raised, d_error>>
               ELSE IF RetryIf(raised) /\ d_attempt < STOP_AFTER_ATTEMPT
               THEN /\ d_attempt' = d_attempt + 1
                    /\ UNCHANGED <<d_pc, d_idx, d_results, d_raised, d_error>>
               ELSE LET exc == IF RetryIf(raised) THEN "RetryError" ELSE raised
                    IN  /\ d_raised' = Append(d_raised,
                                [ep |-> ep, pos |-> d_idx, exc |-> exc,
                                 attempts |-> d_attempt])
                        /\ d_pc' = FeedAfterRaise(exc)
                        /\ d_idx' = IF FeedAfterRaise(exc) = "feed"
                                    THEN d_idx + 1 ELSE d_idx
                        /\ d_error' = IF FeedAfterRaise(exc) = "feed"
                                      THEN d_error ELSE [type |-> exc]
                        /\ UNCHANGED <<d_attempt, d_results>>
    /\ UNCHANGED <<d_cfg, d_feed>>
    /\ UNCHANGED <<enrich_vars, chunk_vars, fence_vars, store_vars, cli_vars>>

\* The for loop is over: return results
FeedReturns ==
    /\ d_pc = "feed"
    /\ d_idx > Len(d_feed)
    /\ d_pc' = "done"
    /\ UNCHANGED <<d_cfg, d_feed, d_idx, d_attempt, d_log, d_results, d_raised,
                   d_error>>
    /\ UNCHANGED <<enrich_vars, chunk_vars, fence_vars, store_vars, cli_vars>>

NextDownload ==
    \/ SkipExisting
    \/ CallDownloadEpisode
    \/ Attempt
    \/ FeedReturns

SpecDownload == InitDownload /\ [][NextDownload]_vars

(* ---------------------------- PonderosaStore -------------------------- *)

\* COLLECTIONS = ("themes", "learnings", "strategies")
COLLECTIONS == {"themes", "learnings", "strategies"}

\* The episode ids of the runs, and the ids get_episode is asked for: an
\* episode id or an 8-character short id.
EpisodeIds == {"e1", "e2"}

\* make_short_id(episode_id): the first 8 hex digits of its SHA-256
make_short_id(eid) == IF eid = "e1" THEN "s1" ELSE "s2"

LookupKeys == EpisodeIds \cup {make_short_id(e) : e \in EpisodeIds}

\* An EnrichmentResult as the store reads it: its summary and the list of
\* insights of each category. Enrichment number n has t themes, l learnings
\* and s strategies, each insight its own.
StoredResult(n, t, l, s) ==
    LET len == [themes |-> t, learnings |-> l, strategies |-> s]
    IN  [summary |-> n,
         insights |-> [c \in COLLECTIONS |->
                          [k \in 1 .. len[c] |-> [of |-> n, category |-> c, k |-> k]]]]

\* collection.upsert(ids=..., ...): a record replaces the one of its id
Upsert(coll, recs) ==
    {x \in coll : x.id \notin {r.id : r \in recs}} \cup recs

\* The for loop of store_enrichment: a category without insights is passed
\* over; the insights of another are upserted under the ids
\* f"{episode_id}_{collection_name}_{i}", i from 0.
StoreInsights(items, eid, r) ==
    Upsert(items,
           UNION { {[id |-> <<eid, c, k - 1>>, collection |-> c, episode_id |-> eid,
                     document |-> r.insights[c][k]] : k \in 1 .. Len(r.insights[c])} :
                   c \in {d \in COLLECTIONS : r.insights[d] # <<>>} })

\* self.episodes.upsert(ids=[episode_id], documents=[result.summary],
\* metadatas=[{..., "themes_count": len(result.themes), ...}])
StoreEpisode(eps, eid, r) ==
    Upsert(eps, {[id |-> eid, document |-> r.summary, short_id |-> make_short_id(eid),
                  count |-> [c \in COLLECTIONS |-> Len(r.insights[c])]]})

\* _resolve_episode_id: the id itself when it is stored, else the episode of
\* that short id, else None
resolve_episode_id(eps, key) ==
    IF \E e \in eps : e.id = key THEN key
    ELSE IF \E e \in eps : e.short_id = key
         THEN (CHOOSE e \in eps : e.short_id = key).id
         ELSE "None"

\* get_episode(key): the episode's metadata and, for each category, the
\* items of the collection whose metadata names the episode
GetEpisode(eps, items, key) ==
    LET eid == resolve_episode_id(eps, key)
    IN  IF eid = "None" THEN None
        ELSE LET e == CHOOSE x \in eps : x.id = eid
             IN  [id |-> eid, summary |-> e.document, count |-> e.count,
                  insights |-> [c \in COLLECTIONS |->
                      {x.document : x \in {y \in items : /\ y.collection = c
                                                         /\ y.episode_id = eid}}]]

InitStore ==
    /\ IdleEnrich
    /\ IdleChunk
    /\ IdleFence
    /\ IdleDownload
    /\ IdleCli
    /\ s_episodes = {}
    /\ s_items = {}
    /\ s_calls = <<>>
    /\ s_got = None

\* store.store_enrichment(episode_id, result)
StoreEnrichment ==
    /\ Len(s_calls) < MaxStores
    /\ \E eid \in EpisodeIds, t \in 0 .. MaxInsights, l \in 0 .. 1, s \in 0 .. 1 :
        LET r == StoredResult(Len(s_calls) + 1, t, l, s)
        IN  /\ s_episodes' = StoreEpisode(s_episodes, eid, r)
            /\ s_items' = StoreInsights(s_items, eid, r)
            /\ s_calls' = Append(s_calls, [episode_id |-> eid, result |-> r])
    /\ s_got' = None
    /\ UNCHANGED <<enrich_vars, chunk_vars, fence_vars, dl_vars, cli_vars>>

\* store.get_episode(key)
GetEpisodeCall ==
    /\ s_got = None
    /\ \E key \in LookupKeys :
        s_got' = [key |-> key, episode |-> GetEpisode(s_episodes, s_items, key)]
    /\ UNCHANGED <<s_episodes, s_items, s_calls>>
    /\ UNCHANGED <<enrich_vars, chunk_vars, fence_vars, dl_vars, cli_vars>>

NextStore ==
    \/ StoreEnrichment
    \/ GetEpisodeCall

SpecStore == InitStore /\ [][NextStore]_vars

(* ------------------------------ cmd_enrich ---------------------------- *)

\* The result of the run as the store reads it: a category the response
\* left out is [], one it gave holds an insight for each of its scores.
ResultFields(r) ==
    [summary |-> r.id,
     insights |-> [c \in COLLECTIONS |->
                      IF c \in r.given
                      THEN [k \in 1 .. Cardinality(r.scores) |->
                               [of |-> r.id, category |-> c, k |-> k]]
                      ELSE <<>>]]

\* A command that swallows what enrich_transcript did and never stores
Stores_never(epc) == FALSE

\* Whether cmd_enrich reaches store.store_enrichment: enrich_transcript is
\* called outside any try, so only when it returned
Stores(epc) == epc = "returned"

InitCli ==
    /\ stub = BasicShapes
    /\ data = None
    /\ loaded = <<>>
    /\ e_chunks = <<>>
    /\ pc = "idle"
    /\ mode = "single"
    /\ i = 1
    /\ attempt = 1
    /\ last_error = None
    /\ chunk_results = <<>>
    /\ calls = <<>>
    /\ result = None
    /\ error = None
    /\ IdleChunk
    /\ IdleFence
    /\ IdleDownload
    /\ IdleStore
    /\ c_pc = "start"
    /\ c_args = None
    /\ c_ret = None

\* if not transcript_path.exists(): return 1
FileNotFound ==
    /\ c_pc = "start"
    /\ c_pc' = "done"
    /\ c_args' = [exists |-> FALSE, output |-> FALSE]
    /\ c_ret' = [type |-> "return", code |-> 1]
    /\ UNCHANGED <<enrich_vars, chunk_vars, fence_vars, dl_vars, store_vars>>

\* enricher = Enricher(); result = enricher.enrich_transcript(transcript_path)
CallEnrich ==
    /\ c_pc = "start"
    /\ c_pc' = "enriching"
    /\ c_args' = [exists |-> TRUE, output |-> FALSE]
    /\ pc' = "load"
    /\ UNCHANGED c_ret
    /\ UNCHANGED <<stub, data, loaded, e_chunks, mode, i, attempt, last_error,
                   chunk_results, calls, result, error>>
    /\ UNCHANGED <<chunk_vars, fence_vars, dl_vars, store_vars>>

\* enrich_transcript returned: store = PonderosaStore();
\* store.store_enrichment(episode_id, result); the summary is printed, the
\* result written to args.output when given; return 0
StoreAndReturn ==
    /\ c_pc = "enriching"
    /\ pc \in {"returned", "raised"}
    /\ Stores(pc)
    /\ \E eid \in EpisodeIds, output \in BOOLEAN :
        LET r == ResultFields(result)
        IN  /\ s_episodes' = StoreEpisode(s_episodes, eid, r)
            /\ s_items' = StoreInsights(s_items, eid, r)
            /\ s_calls' = Append(s_calls, [episode_id |-> eid, result |-> r])
            /\ c_args' = [c_args EXCEPT !.output = output]
    /\ c_pc' = "done"
    /\ c_ret' = [type |-> "return", code |-> 0]
    /\ UNCHANGED s_got
    /\ UNCHANGED <<enrich_vars, chunk_vars, fence_vars, dl_vars>>

\* enrich_transcript raised: nothing catches it, the exception leaves
\* cmd_enrich
EnrichRaised ==
    /\ c_pc = "enriching"
    /\ pc \in {"returned", "raised"}
    /\ ~Stores(pc)
    /\ c_pc' = "done"
    /\ c_ret' = [type |-> "raise", error |-> error]
    /\ UNCHANGED c_args
    /\ UNCHANGED <<enrich_vars, chunk_vars, fence_vars, dl_vars, store_vars>>

NextCli ==
    \/ FileNotFound
    \/ CallEnrich
    \/ Load
    \/ AttemptSucceeds
    \/ AttemptFails
    \/ ClientRaises
    \/ StoreAndReturn
    \/ EnrichRaised

SpecCli == InitCli /\ [][NextCli]_vars

(* ------------------- reading the log of model calls ------------------- *)

Malformed(raw) == raw.kind \in {"notjson", "badschema"}

\* The calls made with prompt p: one _call_llm invocation, since the
\* prompts of different chunks and of the merge differ.
CallsWith(p) == {n \in 1 .. Len(calls) : calls[n].prompt = p}

LastPrompt == calls[Len(calls)].prompt

AllMalformed(p) == \A n \in CallsWith(p) : Malformed(calls[n].raw)

AllValid == \A n \in 1 .. Len(calls) : calls[n].raw.kind = "valid"

ExtractPrompt(k) == [template |-> "ENRICHMENT_PROMPT", body |-> <<k>>]

IsMerge(n) == calls[n].prompt.template = "MERGE_PROMPT"

Exhausted == pc = "raised" /\ error.type = "RuntimeError"

\* The result that response n stands for, field by field
ResultFrom(n) ==
    [about |-> calls[n].prompt, id |-> calls[n].raw.id,
     given |-> calls[n].raw.keys, scores |-> calls[n].raw.scores]

(* ------------------------------- claims ------------------------------- *)

\* C1: a call whose every response is malformed fails after exactly
\* MAX_RETRIES + 1 model invocations: no call is ever invoked more often,
\* the run fails with the retry-exhausted error exactly when the call in
\* flight has had MAX_RETRIES + 1 malformed responses, and it is still being
\* retried while it has had fewer.
C1_RetryExhaustion ==
    /\ \A n \in 1 .. Len(calls) :
          Cardinality(CallsWith(calls[n].prompt)) <= MAX_RETRIES + 1
    /\ Exhausted <=>
          /\ calls # <<>>
          /\ AllMalformed(LastPrompt)
          /\ Cardinality(CallsWith(LastPrompt)) = MAX_RETRIES + 1
    /\ ( /\ calls # <<>>
         /\ AllMalformed(LastPrompt)
         /\ Cardinality(CallsWith(LastPrompt)) < MAX_RETRIES + 1 ) => pc = "call"

C1_Witness ==
    /\ Exhausted
    /\ Cardinality(CallsWith(LastPrompt)) = MAX_RETRIES + 1
    /\ Len(calls) > MAX_RETRIES + 1

\* C2: a transport or timeout error raised by the model client reaches the
\* caller only once the call's budget of MAX_RETRIES + 1 attempts is spent.
C2_TransportAbsorbed ==
    (pc = "raised" /\ error.type = "APIError") =>
        Cardinality(CallsWith(LastPrompt)) = MAX_RETRIES + 1

\* The value the call made with prompt p handed back to enrich_transcript
Returned(p) ==
    IF p.template = "ENRICHMENT_PROMPT" /\ Len(e_chunks) > 1
    THEN IF p.body[1] <= Len(chunk_results) THEN chunk_results[p.body[1]] ELSE None
    ELSE IF pc = "returned" THEN result ELSE None

\* C3: when the first k responses to a call are malformed (1 <= k <=
\* MAX_RETRIES) and response k+1 is valid, the call returns the result
\* parsed from response k+1 and no further invocation of that call is made;
\* a call is never given up before MAX_RETRIES + 1 malformed responses.
C3_MalformedThenValid ==
    /\ \A n \in 1 .. Len(calls) :
          calls[n].raw.kind = "valid" =>
              /\ \A m \in CallsWith(calls[n].prompt) : m <= n
              /\ Cardinality(CallsWith(calls[n].prompt)) = calls[n].attempt
              /\ Returned(calls[n].prompt) = ResultFrom(n)
              /\ ~(pc = "raised" /\ LastPrompt = calls[n].prompt)
    /\ Exhausted => Cardinality(CallsWith(LastPrompt)) > MAX_RETRIES

C3_Witness ==
    \E n \in 1 .. Len(calls) :
        /\ calls[n].raw.kind = "valid"
        /\ calls[n].attempt = MAX_RETRIES + 1
        /\ n > MAX_RETRIES + 1
        /\ \A m \in CallsWith(calls[n].prompt) : m < n => Malformed(calls[m].raw)

\* C4: in a multi-chunk run, when the extraction of chunk k exhausts its
\* retries the run ends with that error: no chunk after k is sent to the
\* model, no merge call is issued, and nothing is returned.
C4_AllOrNothing ==
    \A n \in 1 .. Len(calls) :
        ( /\ Len(e_chunks) >= 2
          /\ ~IsMerge(n)
          /\ AllMalformed(calls[n].prompt)
          /\ Cardinality(CallsWith(calls[n].prompt)) = MAX_RETRIES + 1 ) =>
            /\ Exhausted
            /\ result = None
            /\ \A m \in 1 .. Len(calls) :
                  /\ ~IsMerge(m)
                  /\ calls[m].prompt.body[1] <= calls[n].prompt.body[1]

C4_Witness ==
    /\ Exhausted
    /\ Len(e_chunks) = 3
    /\ LastPrompt = ExtractPrompt(2)
    /\ Len(chunk_results) = 1

\* C5: with N >= 2 chunks and every response valid, the run makes exactly
\* N extraction calls, one per chunk, then exactly one merge call over the
\* N results, and returns the merge call's output.
C5_MultiChunk ==
    LET N == Len(e_chunks)
    IN  (N >= 2 /\ AllValid) =>
          /\ Len(calls) <= N + 1
          /\ pc = "returned" <=> Len(calls) = N + 1
          /\ \A n \in 1 .. Len(calls) :
                IF n <= N THEN calls[n].prompt = ExtractPrompt(n)
                ELSE /\ IsMerge(n)
                     /\ Len(calls[n].prompt.body) = N
                     /\ Len(chunk_results) = N
          /\ pc = "returned" =>
                /\ result = ResultFrom(N + 1)
                /\ result.id = N + 1
                /\ \A k \in 1 .. N : result # chunk_results[k]

C5_Witness ==
    /\ pc = "returned"
    /\ Len(e_chunks) = 3
    /\ Len(calls) = 4
    /\ AllValid

\* C6: with exactly one chunk, every model call is the extraction of that
\* chunk by one and the same call, no merge prompt is ever sent, and the
\* value returned is that extraction's result.
C6_SingleChunk ==
    Len(e_chunks) = 1 =>
        /\ \A n \in 1 .. Len(calls) : calls[n].prompt = ExtractPrompt(1)
        /\ \A n \in 1 .. Len(calls) : calls[n].attempt = n
        /\ chunk_results = <<>>
        /\ pc = "returned" =>
              /\ calls[Len(calls)].raw.kind = "valid"
              /\ result = ResultFrom(Len(calls))
              /\ result.id = Len(calls)

C6_Witness ==
    /\ Len(e_chunks) = 1
    /\ pc = "returned"
    /\ Len(calls) = 2

\* C7: chunks are extracted strictly left to right: a model call for chunk
\* k > 1 comes only after a valid response for chunk k-1, the merge call
\* only after a valid response for the last chunk, no call for an earlier
\* chunk follows one for a later chunk, and the list handed to the merger
\* holds result k of chunk k at position k.
C7_Ordering ==
    /\ \A n \in 1 .. Len(calls) : \A m \in 1 .. n :
          /\ IsMerge(m) => IsMerge(n)
          /\ (~IsMerge(m) /\ ~IsMerge(n)) =>
                calls[m].prompt.body[1] <= calls[n].prompt.body[1]
    /\ \A n \in 1 .. Len(calls) :
          LET k == IF IsMerge(n) THEN Len(e_chunks) + 1 ELSE calls[n].prompt.body[1]
          IN  (k > 1 /\ Len(e_chunks) > 1) =>
                \E m \in 1 .. (n - 1) :
                    /\ calls[m].prompt = ExtractPrompt(k - 1)
                    /\ calls[m].raw.kind = "valid"
                    /\ chunk_results[k - 1] = ResultFrom(m)
    /\ \A n \in 1 .. Len(calls) :
          IsMerge(n) =>
              /\ Len(calls[n].prompt.body) = Len(e_chunks)
              /\ \A k \in 1 .. Len(e_chunks) :
                    /\ calls[n].prompt.body[k].about = ExtractPrompt(k)
                    /\ calls[n].prompt.body[k] = chunk_results[k]

C7_Witness ==
    /\ Len(e_chunks) = 3
    /\ calls # <<>>
    /\ IsMerge(Len(calls))
    /\ Len(calls) > 4

(* ---------------------------- chunker claims -------------------------- *)

\* The text actually held by chunk k: the offsets [s, s + len(chunk))
Covered(k) == chunks[k].s .. (chunks[k].s + Len(chunks[k].str) - 1)

Shrunk(k) == chunks[k].e # chunks[k].s + chunk_size

\* C8: the loop variable start strictly increases on every iteration of
\* _chunk_text (so that the loop ends and a finite list is returned).
C8_StartIncreases ==
    Len(text) > chunk_size =>
        /\ \A k \in 1 .. (Len(chunks) - 1) : chunks[k + 1].s > chunks[k].s
        /\ chunks # <<>> => start > chunks[Len(chunks)].s

\* C9: the chunks returned by _chunk_text cover the text: every chunk is
\* the contiguous substring text[s:e] of a range inside the text, and every
\* offset of [0, len(text)) lies in some chunk's range.
C9_Coverage ==
    cpc = "done" =>
        /\ \A k \in 1 .. Len(chunks) :
              /\ 0 <= chunks[k].s
              /\ chunks[k].s + Len(chunks[k].str) <= Len(text)
              /\ chunks[k].s + Len(chunks[k].str) =
                     (IF chunks[k].e > Len(text) THEN Len(text) ELSE chunks[k].e)
              /\ chunks[k].str =
                     SubSeq(text, chunks[k].s + 1, chunks[k].s + Len(chunks[k].str))
        /\ \A p \in 0 .. (Len(text) - 1) : \E k \in 1 .. Len(chunks) : p \in Covered(k)
        /\ UNION {Covered(k) : k \in 1 .. Len(chunks)} = 0 .. (Len(text) - 1)

Marks == {".", "?", "!"}

\* t is made of sentences, each a run of characters other than the space
\* that ends with a mark followed by one space, each shorter than cs.
SentenceText(t, cs) ==
    /\ t # <<>>
    /\ t[Len(t)] = " "
    /\ \A p \in 1 .. Len(t) :
          /\ t[p] \in Marks => (p < Len(t) /\ t[p + 1] = " ")
          /\ t[p] = " " => (p > 1 /\ t[p - 1] \in Marks)
          /\ t[p] \in Marks =>
                (p < cs \/ \E q \in (p - cs + 1) .. p : q >= 1 /\ t[q] = " ")

EndsWithMark(k) ==
    /\ chunks[k].str # <<>>
    /\ chunks[k].str[Len(chunks[k].str)] \in Marks

\* A mark followed by a space lies wholly inside the range searched for the
\* window that starts at st: text[st + chunk_size - 5000 : st + chunk_size]
MarkInRange(st) ==
    \E p \in Adj(st + chunk_size - 5000, Len(text)) ..
              (Adj(st + chunk_size, Len(text)) - 2) :
        text[p + 1] \in Marks /\ text[p + 2] = " "

C12_ShortCircuit ==
    Len(text) <= chunk_size =>
        /\ cpc \in {"entry", "done"}
        /\ start = 0
        /\ cpc = "entry" => chunks = <<>>
        /\ cpc = "done" => chunks = <<[s |-> 0, e |-> Len(text), str |-> text]>>

C12_Witness ==
    /\ cpc = "done"
    /\ Len(text) = chunk_size
    /\ Len(text) >= 3
    /\ text[1] = "."
    /\ text[2] = " "
    /\ Len(chunks) = 1

(* ------------------ validation and transcript claims ------------------ *)

\* C13: a response that parses as a JSON object but leaves out any of the
\* five top-level keys is a failed attempt: it is followed by the next
\* attempt of the same call or by the retry-exhausted error, and no result
\* built from it is ever returned.
C13_MissingKeyRejected ==
    \A n \in 1 .. Len(calls) :
        (calls[n].raw.json /\ calls[n].raw.keys # Keys) =>
            /\ ~(pc = "returned" /\ n = Len(calls))
            /\ pc = "returned" => result.given = Keys
            /\ IF n < Len(calls)
               THEN calls[n + 1].attempt = calls[n].attempt + 1
               ELSE \/ pc = "call" /\ attempt = calls[n].attempt + 1
                    \/ Exhausted

\* The transcript has no text: "text" missing or empty, and "segments"
\* missing, empty, or holding only segments without text
NoUsableText(d) ==
    /\ ~d.has_text \/ d.text = <<>>
    /\ \/ ~d.has_segments
       \/ \A k \in 1 .. Len(d.segments) :
             ~d.segments[k].has_text \/ d.segments[k].text = <<>>

\* C14: for a transcript with no text and no usable segments the run makes
\* no model call at all, returns nothing, and ends with a load error.
C14_LoadError ==
    (data # None /\ NoUsableText(data)) =>
        /\ calls = <<>>
        /\ pc # "returned"
        /\ pc = "raised" => error.type = "LoadError"

OutOfRange(raw) == \E sc \in raw.scores : sc < 0 \/ sc > 10

\* Every result held by the run: the chunk results and the value returned
AllResults ==
    {chunk_results[k] : k \in 1 .. Len(chunk_results)}
    \cup (IF pc = "returned" THEN {result} ELSE {})

\* C15: every result of an extraction or of the merge has all its scores
\* within [0.0, 1.0] (0 .. 10 tenths); a response with a score outside is a
\* failed attempt, followed by the next attempt of the same call or by the
\* retry-exhausted error, and no result is built from it, clamped or not.
C15_ScoreInvariant ==
    /\ \A r \in AllResults : \A sc \in r.scores : 0 <= sc /\ sc <= 10
    /\ \A n \in 1 .. Len(calls) :
          OutOfRange(calls[n].raw) =>
              /\ \A r \in AllResults : r.id # calls[n].raw.id
              /\ IF n < Len(calls)
                 THEN /\ calls[n + 1].prompt = calls[n].prompt
                      /\ calls[n + 1].attempt = calls[n].attempt + 1
                 ELSE \/ pc = "call" /\ attempt = calls[n].attempt + 1
                      \/ Exhausted /\ calls[n].attempt = MAX_RETRIES + 1

C15_Witness ==
    /\ pc = "returned"
    /\ Len(e_chunks) >= 2
    /\ \E n \in 1 .. Len(calls) : IsMerge(n) /\ OutOfRange(calls[n].raw)
    /\ \E n \in 1 .. Len(calls) : ~IsMerge(n) /\ OutOfRange(calls[n].raw)
    /\ \A sc \in {0, 10} : sc \in result.scores

\* The parse or validation error that response n raises
ErrorOf(n) ==
    [type |-> IF calls[n].raw.json THEN "ValidationError" ELSE "JSONDecodeError",
     id |-> calls[n].raw.id]

\* C16: the retry-exhausted error carries the error of the final attempt,
\* not of an earlier one; every call's attempts are numbered 1, 2, 3 without
\* a restart (nothing retries a call or an earlier chunk once more), and
\* once the error is raised nothing further happens in the run.
C16_LastErrorCarried ==
    /\ [](Exhausted =>
            /\ calls[Len(calls)].attempt = MAX_RETRIES + 1
            /\ error.last = ErrorOf(Len(calls))
            /\ result = None)
    /\ [](\A n \in 1 .. Len(calls) :
            calls[n].attempt =
                Cardinality({m \in CallsWith(calls[n].prompt) : m <= n}))
    /\ [][pc # "raised"]_vars

C16_Witness ==
    /\ Exhausted
    /\ Len(e_chunks) >= 2
    /\ Len(calls) > 3
    /\ ~calls[Len(calls) - 2].raw.json
    /\ calls[Len(calls) - 1].raw.json
    /\ ~calls[Len(calls)].raw.json

RECURSIVE SegOffset(_, _)
\* The offset, in the joined text, just before segment k: the lengths of
\* the segments before it, each followed by one separator
SegOffset(d, k) ==
    IF k = 1 THEN 0
    ELSE SegOffset(d, k - 1)
         + (IF d.segments[k - 1].has_text THEN Len(d.segments[k - 1].text) ELSE 0)
         + 1

\* C17: the text handed to the chunker (and sent to the model) is the
\* top-level text when it is present and not empty, whatever the segments;
\* otherwise it is the segments' texts in their order, one space between
\* two neighbours (a segment without text counting as empty), and empty
\* when there is no segment.
C17_SegmentsFallback ==
    pc # "load" =>
        /\ e_chunks = <<loaded>>
        /\ \A n \in 1 .. Len(calls) : calls[n].prompt.body = <<loaded>>
        /\ IF data.has_text /\ data.text # <<>>
           THEN loaded = data.text
           ELSE LET N == IF data.has_segments THEN Len(data.segments) ELSE 0
                    T(k) == IF data.segments[k].has_text
                            THEN data.segments[k].text ELSE <<>>
                IN  /\ Len(loaded) = IF N = 0 THEN 0 ELSE SegOffset(data, N + 1) - 1
                    /\ \A k \in 1 .. N :
                          /\ \A q \in 1 .. Len(T(k)) :
                                loaded[SegOffset(data, k) + q] = T(k)[q]
                          /\ k > 1 => loaded[SegOffset(data, k)] = " "

C17_Witness ==
    /\ pc = "returned"
    /\ data.has_text
    /\ data.text = <<>>
    /\ data.has_segments
    /\ loaded = <<"a", " ", "b">>

(* ---------------------------- fence claims ---------------------------- *)

\* The language tags looked at: none, or one character other than newline
FenceTags == {<<>>} \cup {<<c>> : c \in FenceAlphabet \ {"\n"}}

\* fence_in opens with a fence line carrying tag
Opens(tag) ==
    /\ Len(fence_in) >= Len(tag) + 4
    /\ SubSeq(fence_in, 1, Len(tag) + 4) = Fence \o tag \o <<"\n">>

\* What follows that fence line
Rest(tag) == SubSeq(fence_in, Len(tag) + 5, Len(fence_in))

\* r ends with a closing fence
Closed(r) == Len(r) >= 3 /\ SubSeq(r, Len(r) - 2, Len(r)) = Fence

\* C18 as claimed: for a fenced string (an opening fence line, the inner
\* content, a closing fence on a line of its own) the value returned is the
\* inner content, character for character, its leading and trailing
\* whitespace included.
C18_InnerIdentical ==
    fpc = "done" =>
        \A tag \in FenceTags :
            LET r == Rest(tag)
            IN  (Opens(tag) /\ Closed(r) /\ Len(r) >= 4 /\ r[Len(r) - 3] = "\n")
                    => fence_out = SubSeq(r, 1, Len(r) - 4)

\* C18 as amended: for a string made of an opening fence line, a content
\* and a closing fence, the value returned is the content without its
\* leading and trailing whitespace (the newline before the closing fence
\* included), the characters in between unchanged; when the string does not
\* end with a closing fence, what follows the opening fence line is
\* returned character for character, whitespace included.
C18_InnerStripped ==
    fpc = "done" =>
        \A tag \in FenceTags :
            LET r     == Rest(tag)
                inner == SubSeq(r, 1, Len(r) - 3)
            IN  Opens(tag) =>
                  IF Closed(r)
                  THEN \E a \in 0 .. Len(inner) :
                          /\ a + Len(fence_out) <= Len(inner)
                          /\ fence_out = SubSeq(inner, a + 1, a + Len(fence_out))
                          /\ \A q \in 1 .. a : inner[q] \in Whitespace
                          /\ \A q \in (a + Len(fence_out) + 1) .. Len(inner) :
                                inner[q] \in Whitespace
                          /\ fence_out # <<>> =>
                                /\ fence_out[1] \notin Whitespace
                                /\ fence_out[Len(fence_out)] \notin Whitespace
                  ELSE fence_out = r

C18_Witness ==
    /\ fpc = "done"
    /\ fence_in = Fence \o <<"x", "\n">> \o <<" ", "x">> \o <<"\n">> \o Fence
    /\ fence_out = <<"x">>

\* C19: a string that does not begin with the fence marker is returned
\* unchanged, wherever else it holds a fence marker.
C19_UnfencedIdentity ==
    fpc = "done" =>
        ( (Len(fence_in) < 3 \/ \E q \in 1 .. 3 : fence_in[q] # "tick")
            => fence_out = fence_in )

C19_Witness ==
    /\ fpc = "done"
    /\ fence_in = <<"x", "tick", "tick", "tick">>
    /\ fence_out = fence_in

(* -------------------------- downloader claims ------------------------- *)

\* The HTTP requests made for the episode at position k of the feed
RequestsFor(k) == {n \in 1 .. Len(d_log) : d_log[n].pos = k}

\* C20: when every HTTP request for an episode fails with an httpx.HTTPError
\* the download is tried 3 times, and DownloadError is raised only after
\* the third.
C20_DownloaderRetry ==
    \A n \in 1 .. Len(d_raised) :
        d_raised[n].exc = "DownloadError" =>
            /\ Cardinality(RequestsFor(d_raised[n].pos)) = 3
            /\ d_raised[n].attempts = 3
            /\ \A m \in RequestsFor(d_raised[n].pos) : d_log[m].outcome # "ok"

\* The positions of the feed whose download_episode call raised
FailedPos == {d_raised[n].pos : n \in 1 .. Len(d_raised)}

ResultKeys == {r.id : r \in d_results}

\* C21 as claimed: whichever episodes fail to download, download_feed goes
\* through the whole feed and returns; the keys of the mapping returned are
\* exactly the ids of the episodes downloaded or skipped, and the id of a
\* failed episode is not among them.
C21_FeedIsolation ==
    /\ d_pc # "raised"
    /\ d_pc = "done" =>
          /\ d_idx = Len(d_feed) + 1
          /\ ResultKeys = {d_feed[k] : k \in (1 .. Len(d_feed)) \ FailedPos}
          /\ \A k \in FailedPos : d_feed[k] \notin ResultKeys

\* C21 as amended: a download_episode call that raises DownloadError is
\* logged and the loop goes on with the next episode; episodes are handled
\* in feed order; when download_feed returns, every episode was handled and
\* the keys are exactly the ids of the episodes downloaded or skipped (so
\* the id of a failed episode is a key only when another episode of the
\* feed carries the same id). Any other exception out of download_episode
\* leaves download_feed at once: no later episode is attempted and nothing
\* is returned.
C21_DownloadErrorIsolated ==
    /\ \A n \in 1 .. Len(d_raised) :
          IF d_raised[n].exc = "DownloadError"
          THEN d_idx > d_raised[n].pos
          ELSE /\ n = Len(d_raised)
               /\ d_pc = "raised"
               /\ d_idx = d_raised[n].pos
               /\ d_error = [type |-> d_raised[n].exc]
               /\ \A m \in 1 .. Len(d_log) : d_log[m].pos <= d_raised[n].pos
    /\ d_pc = "raised" =>
          (d_raised # <<>> /\ d_raised[Len(d_raised)].exc # "DownloadError")
    /\ \A n \in 1 .. Len(d_log) : \A m \in 1 .. n : d_log[m].pos <= d_log[n].pos
    /\ \A n \in 1 .. Len(d_log) : d_log[n].pos <= d_idx
    /\ d_pc = "done" =>
          /\ d_idx = Len(d_feed) + 1
          /\ ResultKeys = {d_feed[k] : k \in (1 .. Len(d_feed)) \ FailedPos}
          /\ \A k \in FailedPos :
                d_feed[k] \in ResultKeys =>
                    \E j \in (1 .. Len(d_feed)) \ FailedPos : d_feed[j] = d_feed[k]

C21_Witness ==
    /\ d_pc = "done"
    /\ Len(d_feed) = 2
    /\ d_feed[1] # d_feed[2]
    /\ FailedPos = {1}
    /\ d_raised[1].exc = "DownloadError"
    /\ ResultKeys = {d_feed[2]}

(* --------------------------- command claims --------------------------- *)

\* C22: in the enrich command the store operation is invoked exactly once,
\* after enrich_transcript has returned, when enrichment succeeds, and never
\* when enrichment fails; the Enricher itself never calls the store. Nothing
\* is stored while the command has not finished (so no step of
\* enrich_transcript stores); a command that finished after a returned
\* enrichment made one store call, with the result returned; one that
\* finished otherwise made none.
C22_StoreOnce ==
    /\ Len(s_calls) <= 1
    /\ c_pc # "done" => s_calls = <<>> /\ s_episodes = {} /\ s_items = {}
    /\ (c_pc = "done" /\ pc = "returned") =>
          /\ Len(s_calls) = 1
          /\ s_calls[1].result = ResultFields(result)
          /\ c_ret = [type |-> "return", code |-> 0]
    /\ (c_pc = "done" /\ pc # "returned") =>
          /\ s_calls = <<>>
          /\ c_ret # [type |-> "return", code |-> 0]

\* A command that stored the merged result of a run with a retried call
C22_Witness ==
    /\ c_pc = "done"
    /\ pc = "returned"
    /\ Len(s_calls) = 1
    /\ Len(e_chunks) >= 2
    /\ \E k \in 1 .. Len(calls) : calls[k].attempt > 1
    /\ \E x \in s_items : x.document.of = result.id

(* ----------------------- chunker claims, continued -------------------- *)

\* C23: whenever _chunk_text shrinks a window to a boundary, the boundary
\* lies within the last 5000 characters of that window and at or after
\* start, so the chunk is not empty and ends at an offset strictly greater
\* than start, for every chunk_size > 0 and every text length.
C23_BoundaryInWindow ==
    Len(text) > chunk_size => \A k \in 1 .. Len(chunks) :
        Shrunk(k) =>
            LET c        == chunks[k]
                boundary == c.e - 1
            IN  /\ boundary >= c.s + chunk_size - LOOKBACK
                /\ boundary >= c.s
                /\ boundary + 2 <= c.s + chunk_size
                /\ c.str # <<>>
                /\ c.e > c.s

\* The mark m followed by a space stands at offset p, wholly inside the last
\* 5000 characters of the window that starts at st
MarkAt(st, m, p) ==
    /\ p >= st
    /\ p >= st + chunk_size - LOOKBACK
    /\ p >= 0
    /\ p + 2 <= st + chunk_size
    /\ p + 2 <= Len(text)
    /\ text[p + 1] = m
    /\ text[p + 2] = " "

HasMark(st, m) == \E p \in 0 .. Len(text) : MarkAt(st, m, p)

Rightmost(st, m) ==
    CHOOSE p \in 0 .. Len(text) :
        MarkAt(st, m, p) /\ \A q \in 0 .. Len(text) : MarkAt(st, m, q) => q <= p

\* C24: when the right edge of a window lies before the end of the text,
\* the chunk ends immediately after the mark (mark included, space left
\* out) of the rightmost '. ' in the last 5000 characters of the window if
\* there is one, of the rightmost '? ' only if there is no '. ', of the
\* rightmost '! ' only if there is neither, even when a mark of lower
\* priority lies nearer the edge; with no mark in that range the chunk ends
\* at the raw edge start + chunk_size.
C24_BoundarySelection ==
    Len(text) > chunk_size => \A k \in 1 .. Len(chunks) :
        LET c  == chunks[k]
            st == c.s
        IN  st + chunk_size < Len(text) =>
                IF HasMark(st, ".") THEN c.e = Rightmost(st, ".") + 1
                ELSE IF HasMark(st, "?") THEN c.e = Rightmost(st, "?") + 1
                ELSE IF HasMark(st, "!") THEN c.e = Rightmost(st, "!") + 1
                ELSE c.e = st + chunk_size

\* C28: every chunk returned by _chunk_text is at most chunk_size
\* characters long, for every text, every chunk_size > 0 and every overlap
\* with 0 <= overlap < chunk_size.
C28_ChunkSizeBound ==
    Len(text) > chunk_size =>
        \A k \in 1 .. Len(chunks) : Len(chunks[k].str) <= chunk_size

\* A returned split with a chunk of full width and a shorter one, cut at a
\* boundary
C28_Witness ==
    /\ cpc = "done"
    /\ Len(chunks) >= 2
    /\ \E k \in 1 .. Len(chunks) : Len(chunks[k].str) = chunk_size
    /\ \E k \in 1 .. Len(chunks) :
          /\ Shrunk(k)
          /\ chunks[k].str # <<>>
          /\ Len(chunks[k].str) < chunk_size

\* C29: in a returned multi-chunk split every chunk after the first covers
\* at least one offset that the chunk before it does not cover: the end
\* offsets of the chunks strictly increase, so once a chunk has reached the
\* end of the text no further chunk, a mere suffix of it, is emitted.
C29_NoRedundantChunk ==
    (cpc = "done" /\ Len(chunks) >= 2) =>
        \A k \in 1 .. (Len(chunks) - 1) :
            /\ Covered(k + 1) \ Covered(k) # {}
            /\ chunks[k + 1].s + Len(chunks[k + 1].str) >
                   chunks[k].s + Len(chunks[k].str)
            /\ chunks[k].s + Len(chunks[k].str) # Len(text)

(* ----------------------- enricher claims, continued ------------------- *)

\* The number of chunks of the run, once the transcript is loaded
NumChunks == Len(e_chunks)

\* The most model invocations of a run over n chunks
CallBound(n) ==
    IF n = 1 THEN MAX_RETRIES + 1 ELSE (n + 1) * (MAX_RETRIES + 1)

\* Attempts are numbered from 1 within each call, at most MAX_RETRIES + 1 of
\* them; an attempt after the first follows a failed attempt of the same
\* call, so a call never draws on the attempts another call left unused;
\* and the run never makes more than CallBound invocations.
Budget ==
    /\ \A k \in 1 .. Len(calls) :
          /\ calls[k].attempt \in 1 .. (MAX_RETRIES + 1)
          /\ calls[k].attempt > 1 =>
                /\ k > 1
                /\ calls[k - 1].prompt = calls[k].prompt
                /\ calls[k - 1].attempt = calls[k].attempt - 1
                /\ Malformed(calls[k - 1].raw)
          /\ (k > 1 /\ calls[k - 1].prompt # calls[k].prompt) => calls[k].attempt = 1
    /\ pc # "load" => Len(calls) <= CallBound(NumChunks)
    /\ pc = "call" => Len(calls) < CallBound(NumChunks)

\* C25: each call (chunk extraction or merge) has its own budget of
\* MAX_RETRIES + 1 attempts; a run over N chunks issues at most
\* (N + 1) * (MAX_RETRIES + 1) model invocations for N >= 2 and at most
\* MAX_RETRIES + 1 for N = 1, and always terminates.
C25_RetryBudget == []Budget /\ <>(pc \in {"returned", "raised"})

\* A run over two chunks that used every attempt of every call
C25_Witness ==
    /\ pc \in {"returned", "raised"}
    /\ NumChunks = 2
    /\ Len(calls) = CallBound(2)
    /\ \A k \in 1 .. Len(calls) : (k % (MAX_RETRIES + 1) = 0) =>
          calls[k].attempt = MAX_RETRIES + 1

\* C26: all attempts of one call send an identical request, the same
\* system instruction and the same user content: an attempt after the
\* first repeats the request of the attempt before it, which was made
\* before any response to this call, so nothing of a response or an error
\* is added.
C26_PromptStable ==
    \A k \in 1 .. Len(calls) :
        /\ calls[k].attempt > 1 =>
              /\ calls[k].system = calls[k - 1].system
              /\ calls[k].prompt = calls[k - 1].prompt
        /\ \A j \in 1 .. k :
              (\A n \in j .. k : calls[n].attempt = calls[j].attempt + (n - j)) =>
                  /\ calls[j].system = calls[k].system
                  /\ calls[j].prompt = calls[k].prompt

\* A call that took three attempts, after a response that was not JSON and
\* one that failed validation
C26_Witness ==
    \E k \in 3 .. Len(calls) :
        /\ calls[k].attempt = 3
        /\ calls[k - 2].raw.kind = "notjson"
        /\ calls[k - 1].raw.kind = "badschema"
        /\ calls[k].raw.kind = "valid"
        /\ calls[k].prompt = calls[k - 2].prompt

\* C27: the request for chunk i is exactly the system instruction of the
\* extraction and a user content made of the extraction template followed
\* by the text of chunk i; it is the same whatever the chunks before it
\* returned and however many attempts they took. Every request other than
\* the merge is that of one chunk, and the chunks are requested in order.
C27_StatelessExtraction ==
    /\ \A n \in 1 .. Len(calls) :
          ~IsMerge(n) =>
              /\ calls[n].system = "podcast analyst"
              /\ \E k \in 1 .. NumChunks :
                    /\ calls[n].prompt = ExtractPrompt(e_chunks[k])
                    /\ k = 1 + Cardinality({j \in 1 .. (n - 1) :
                                               calls[j].raw.kind = "valid"})
    /\ (pc = "call" /\ mode # "merge") =>
          AttemptRequest(CurrentRequest(mode, i, e_chunks, chunk_results), last_error)
              = [system |-> "podcast analyst", prompt |-> ExtractPrompt(e_chunks[i])]

\* The request of the third chunk, after retries on the chunks before it
C27_Witness ==
    /\ NumChunks = 3
    /\ \E n \in 1 .. Len(calls) :
          /\ calls[n].prompt = ExtractPrompt(e_chunks[3])
          /\ calls[n].attempt = 1
          /\ \E j \in 1 .. (n - 1) :
                calls[j].attempt > 1 /\ calls[j].prompt = ExtractPrompt(e_chunks[1])
          /\ \E j \in 1 .. (n - 1) :
                calls[j].attempt > 1 /\ calls[j].prompt = ExtractPrompt(e_chunks[2])

(* ----------------------------- store claims --------------------------- *)

\* The number of the most recent store_enrichment call for episode eid
LatestStore(eid) ==
    Max({n \in 1 .. Len(s_calls) : s_calls[n].episode_id = eid})

\* C30: after any sequence of store_enrichment calls, get_episode of a
\* stored episode returns, for each category, exactly the insights of the
\* most recent store_enrichment for that episode: as many items as the
\* recorded count of the category, and no insight of an earlier result.
C30_LatestEnrichment ==
    (s_got # None /\ \E n \in 1 .. Len(s_calls) :
                        s_got.key \in {s_calls[n].episode_id,
                                       make_short_id(s_calls[n].episode_id)}) =>
        /\ s_got.episode # None
        /\ LET ep   == s_got.episode
               last == s_calls[LatestStore(ep.id)].result
           IN  \A c \in COLLECTIONS :
                   /\ ep.insights[c] =
                          {last.insights[c][k] : k \in 1 .. Len(last.insights[c])}
                   /\ Cardinality(ep.insights[c]) = ep.count[c]
                   /\ ep.count[c] = Len(last.insights[c])

====
